---- MODULE Spec2Model ----
(***************************************************************************)
(* ctrl-connect: the action dispatch pipeline of BaseController            *)
(* (resolve -> before-hook/validation -> invoke -> write -> after-hook)    *)
(* together with the ResponseHandler it writes through.                    *)
(*                                                                         *)
(* One dispatch cycle is the promise chain built by callAction:            *)
(*   P0 = resolvePromise(beforeCall(..))                                   *)
(*   P1 = P0.then(invoke [-> resolvePromise(result).then(writeResult)])    *)
(*   P2 = P1.catch(next)                                                   *)
(*   P3 = P2.then(afterCall)                                               *)
(*   P4 = P3.catch(next)                                                   *)
(* pc names the reaction of the chain that runs next.  The callbacks of    *)
(* res.write and the continuation of end() run on their own, interleaved   *)
(* with the chain.                                                         *)
(***************************************************************************)
EXTENDS Integers, Sequences, FiniteSets, TLC

-----------------------------------------------------------------------------
(* Controller classes: UserCtrl extends AppCtrl extends BaseController.     *)

NoClass == "Object"

Parent(c) ==
  CASE c = "UserCtrl" -> "AppCtrl"
    [] c = "AppCtrl"  -> "BaseController"
    [] OTHER          -> NoClass

\* Function-valued properties each prototype owns.
OwnMethods(c) ==
  CASE c = "UserCtrl"       -> {"show", "save"}
    [] c = "AppCtrl"        -> {"list", "save"}
    [] c = "BaseController" -> {"callAction"}
    [] OTHER                -> {}

\* Properties of the prototype whose value is not a function.
NonFunctionProps(c) == IF c = "UserCtrl" THEN {"title"} ELSE {}

Fn(owner, name) == [owner |-> owner, name |-> name]
NoFn == Fn("", "")

\* Methods a decorator can be put on (the user's classes).
UserMethods ==
  UNION {{Fn(c, n) : n \in OwnMethods(c)} : c \in {"UserCtrl", "AppCtrl"}}

\* A function that is no method of any controller but is named like one,
\* and an anonymous function.
ForeignFns == {Fn("foreign", "show"), Fn("foreign", "")}

\* The classes of the controller instances that dispatch.
Controllers == {"UserCtrl"}

\* Action references a caller can pass: a name or a function.
ActionNames == {"show", "save", "list", "title", "nope", "callAction"}
ByName(n) == [byName |-> TRUE, fn |-> Fn("", n)]
ByFn(f)   == [byName |-> FALSE, fn |-> f]
ActionRefs ==
  {ByName(n) : n \in ActionNames}
    \cup {ByFn(f) : f \in UserMethods \cup ForeignFns}

-----------------------------------------------------------------------------
(* Action resolution: property lookup on the prototype chain and the        *)
(* publicAction metadata (Reflect.getMetadata walks the prototype chain).   *)

RECURSIVE ProtoLookup(_, _)
\* this.constructor.prototype[name]: the nearest prototype owning the
\* property; "function" / "other" / "undefined" is its typeof.
ProtoLookup(c, name) ==
  IF c = NoClass THEN [type |-> "undefined", fn |-> NoFn]
  ELSE IF name \in OwnMethods(c) THEN [type |-> "function", fn |-> Fn(c, name)]
  ELSE IF name \in NonFunctionProps(c) THEN [type |-> "other", fn |-> NoFn]
  ELSE ProtoLookup(Parent(c), name)

RECURSIVE getValue(_, _, _)
\* publicAction.getValue(target, propertyName) on the metadata m.
getValue(m, c, name) ==
  IF c = NoClass THEN FALSE
  ELSE IF Fn(c, name) \in m THEN TRUE
  ELSE getValue(m, Parent(c), name)

\* resolveActionFn(action): the function to call, NoFn for undefined.
resolveActionFn(m, c, action) ==
  LET found == IF action.byName
                 THEN LET p == ProtoLookup(c, action.fn.name)
                      IN  IF p.type = "function" THEN p.fn ELSE NoFn
                 ELSE action.fn
  IN  IF found # NoFn /\ getValue(m, c, found.name) THEN found ELSE NoFn

-----------------------------------------------------------------------------
(* CtrlError values, and the values a failure sink can be handed.           *)

\* inner is the message of the inner error, "" without one.
CtrlErr(code, status, blob) ==
  [kind |-> "CtrlError", message |-> "", code |-> code, status |-> status,
   blob |-> blob, inner |-> ""]
\* next(null)
NullErr ==
  [kind |-> "null", message |-> "", code |-> "", status |-> 0,
   blob |-> <<>>, inner |-> ""]
\* a plain Error thrown by user code (a hook or the action); its message
\* names where it was thrown
NativeErr(where) ==
  [kind |-> "Error", message |-> where, code |-> "", status |-> 0,
   blob |-> <<>>, inner |-> ""]

\* CtrlError.server(): status 500, code server_error
CtrlError_server == CtrlErr("server_error", 500, <<>>)

\* CtrlError.server(..).code('invalid_action').blob({controller, action})
InvalidAction(c, action) ==
  [CtrlError_server EXCEPT !.code = "invalid_action",
                           !.blob = <<c, action.fn.name>>]

-----------------------------------------------------------------------------
(* Validation: Validator (an array of entries) and ValidationResults.       *)

Providers == {"query", "body"}
\* Values of a request field: absent, {a:'1'}, {a:'x'}; {a:1} once coerced.
RawValues == {"undef", "str1", "bad"}
\* The same, and a falsy value that is not nullish (0, '', false).
FieldValues == RawValues \cup {"zero"}
EmptyObject == "empty"

Entry(provider, accessor) == [providerName |-> provider, accessor |-> accessor]

\* Validation entries declared on each method (validation metadata).
DeclaredValidations(f) ==
  CASE f = Fn("UserCtrl", "show") -> <<Entry("query", "query")>>
    [] f = Fn("UserCtrl", "save") -> <<Entry("body", "none"), Entry("query", "query")>>
    [] f = Fn("AppCtrl", "save")  -> <<Entry("body", "default")>>
    [] OTHER                      -> <<>>

HasValidations(f) == f \in {Fn("UserCtrl", "show"), Fn("UserCtrl", "save"), Fn("AppCtrl", "save")}

RECURSIVE getValidator(_, _)
\* getValidator(target, property): Reflect.getMetadata(..) || new Validator()
getValidator(c, name) ==
  IF c = NoClass THEN <<>>
  ELSE IF HasValidations(Fn(c, name)) THEN DeclaredValidations(Fn(c, name))
  ELSE getValidator(Parent(c), name)

\* The schema validator: coerces {a:'1'} to {a:1}, rejects everything else.
validator(v) ==
  IF v \in {"str1", "num1"} THEN [error |-> FALSE, value |-> "num1"]
  ELSE [error |-> TRUE, value |-> v]

\* (v.dataAccessor ? v.dataAccessor(req) : req[v.providerName]) || {}
reqVal(r, e) ==
  LET got == CASE e.accessor = "none"  -> r[e.providerName]
               [] e.accessor = "query" -> r["query"]
               [] OTHER                -> "undef"
  IN  IF got \in {"undef", "zero"} THEN EmptyObject ELSE got

RECURSIVE validate(_, _, _)
RECURSIVE validate_writeBackAll(_, _, _)
\* validate with the assignment made for failing entries too.
validate_writeBackAll(es, r, acc) ==
  IF es = <<>> THEN [results |-> acc, req |-> r]
  ELSE LET e   == Head(es)
           out == validator(reqVal(r, e))
       IN  validate_writeBackAll(Tail(es),
                    [r EXCEPT ![e.providerName] = out.value],
                    Append(acc, [provider |-> e.providerName,
                                 error |-> out.error, value |-> out.value,
                                 given |-> reqVal(r, e)]))

RECURSIVE validate_noWriteBack(_, _, _)
\* validate without the assignment req[v.providerName] = res.value.
validate_noWriteBack(es, r, acc) ==
  IF es = <<>> THEN [results |-> acc, req |-> r]
  ELSE LET e   == Head(es)
           out == validator(reqVal(r, e))
       IN  validate_noWriteBack(Tail(es), r,
                    Append(acc, [provider |-> e.providerName,
                                 error |-> out.error, value |-> out.value,
                                 given |-> reqVal(r, e)]))

\* Validator.validate(req) over the entries es, results so far in acc:
\* the ValidationResults and the request as validate leaves it. Each result
\* also records the value the validator was given.
validate(es, r, acc) ==
  IF es = <<>> THEN [results |-> acc, req |-> r]
  ELSE LET e   == Head(es)
           out == validator(reqVal(r, e))
           r2  == IF out.error THEN r ELSE [r EXCEPT ![e.providerName] = out.value]
       IN  validate(Tail(es), r2,
                    Append(acc, [provider |-> e.providerName,
                                 error |-> out.error, value |-> out.value,
                                 given |-> reqVal(r, e)]))

\* isValid that overlooks the errors.
isValid_always(results) == TRUE

\* ValidationResults.isValid
isValid(results) == \A i \in 1..Len(results) : ~results[i].error

\* CtrlError.validation that lists every result, failing or not.
CtrlError_validation_all(results) ==
  CtrlErr("validation_error", 422,
          [i \in 1..Len(results) |-> results[i].provider])

\* CtrlError.validation(valResult): one blob entry per failing result
CtrlError_validation(results) ==
  CtrlErr("validation_error", 422,
          SelectSeq([i \in 1..Len(results) |->
                       IF results[i].error THEN results[i].provider ELSE ""],
                    LAMBDA p : p # ""))

\* NotFoundArg with the sense of throwIfNotFound inverted.
NotFoundArg_inverted(s, c, action) ==
  IF s THEN NullErr ELSE InvalidAction(c, action)

\* What callAction hands to next when the action does not resolve.
NotFoundArg(s, c, action) ==
  IF ~s THEN NullErr ELSE InvalidAction(c, action)

-----------------------------------------------------------------------------
(* ResponseHandler over an http.ServerResponse.  An io value bundles the    *)
(* handler (resp), the response it writes to (res), the lines sent to       *)
(* console.error (log) and the calls made of this.next (sunk).              *)

\* What an action can return or resolve to, besides undefined.
DataKinds ==
  {"Buffer", "Uint8Array", "ArrayBuffer", "Uint16Array", "DataView",
   "object", "circular"}
Undefined == "undefined"

OctetStream == "application/octet-stream"
Json == "application/json"

\* A ServerResponse nothing was written to (statusCode defaults to 200).
\* headersSent: the head went out, with the first res.write or res.end;
\* finished: res.end() has run; endCalls counts the calls of res.end().
NewRes ==
  [statusSet |-> FALSE, statusCode |-> 200, contentType |-> "",
   body |-> <<>>, endCalls |-> 0, headersSent |-> FALSE, finished |-> FALSE]
\* new ResponseHandler(res, next); created is FALSE while none exists.
NoResp  == [created |-> FALSE, closed |-> FALSE, pending |-> 0, endWaiting |-> 0]
NewResp == [NoResp EXCEPT !.created = TRUE]

\* handleWriteError that also hands the error to this.next.
handleWriteError_toNext(io, msg) ==
  [io EXCEPT !.log = Append(@, msg), !.sunk = Append(@, CtrlError_server)]

\* handleWriteError(err): console.error only
handleWriteError(io, msg) == [io EXCEPT !.log = Append(@, msg)]

\* data instanceof Buffer || data instanceof ArrayBuffer || ArrayBuffer.isView(data)
IsBufferLike(data) ==
  data \in {"Buffer", "Uint8Array", "ArrayBuffer", "Uint16Array", "DataView"}

\* Buffer.from(data) : JSON.stringify(data); "throws" when stringify throws,
\* "undefined" when it yields no string.
dataChunk(data) ==
  CASE IsBufferLike(data) -> [enc |-> "raw", of |-> data]
    [] data = "circular"  -> [enc |-> "throws", of |-> data]
    [] data = Undefined   -> [enc |-> "undefined", of |-> data]
    [] OTHER              -> [enc |-> "json", of |-> data]

\* writeToStream(data): res.write throws a TypeError for a chunk that is
\* neither string nor Buffer; the executor catches it and resolves.  On a
\* finished response res.write emits 'error' (write after end), which the
\* listener of the constructor hands to handleWriteError, and still calls back.
writeToStream(io, chunk) ==
  IF chunk.enc = "undefined"
    THEN handleWriteError(io, "TypeError")
    ELSE IF io.res.finished
    THEN [handleWriteError(io, "write after end") EXCEPT !.resp.pending = @ + 1]
    ELSE [io EXCEPT !.res.body = Append(@, chunk),
                    !.res.headersSent = TRUE,
                    !.resp.pending = @ + 1]

\* write({data, headers: {'Content-Type': ct}, status}); status 0 is none,
\* ct "" is no headers.  res.setHeader throws once the head went out, and
\* nothing in write catches that.
write(io, data, ct, status) ==
  IF io.resp.closed
    THEN handleWriteError(io, "closed")
    ELSE LET code == [io EXCEPT !.res.statusSet = TRUE,
                                !.res.statusCode = IF status = 0 THEN 200 ELSE status]
             set  == [code EXCEPT !.res.contentType = ct]
             chunk == dataChunk(data)
         IN  IF ct # "" /\ io.res.headersSent
               THEN [code EXCEPT !.thrown = "headers sent"]
             ELSE IF chunk.enc = "throws"
               THEN handleWriteError(IF ct = "" THEN code ELSE set, "server_error")
               ELSE writeToStream(IF ct = "" THEN code ELSE set, chunk)

\* end() that closes the stream at once, without waiting for the writes.
end_atOnce(io) ==
  [io EXCEPT !.resp.closed = TRUE,
             !.res.endCalls = @ + 1,
             !.res.headersSent = TRUE,
             !.res.finished = TRUE]

\* end(): closed, and res.end() once the started writes have settled
end(io) ==
  [io EXCEPT !.resp.closed = TRUE, !.resp.endWaiting = @ + 1]

\* a call chained on the value of a call that threw does not happen
andThenEnd(io) == IF io.thrown # "none" THEN io ELSE end(io)

\* json(data, status)
json(io, data, status) == andThenEnd(write(io, data, Json, status))

\* undefined as the argument of error(err)
UndefinedErr ==
  [kind |-> "undefined", message |-> "", code |-> "", status |-> 0,
   blob |-> <<>>, inner |-> ""]

\* JSON.stringify(error): CtrlError.toJSON, naming the code and the message of
\* the inner error
toJSON(e) == "{code:" \o e.code \o ",innerError:" \o e.inner \o "}"

\* err instanceof CtrlError ? err : CtrlError.server().innerErr(err);
\* innerErr(undefined) is the getter and yields the inner error of the new
\* CtrlError, undefined.
asCtrlError(err) ==
  CASE err.kind = "CtrlError" -> err
    [] err.kind = "undefined" -> UndefinedErr
    [] OTHER                  -> [CtrlError_server EXCEPT !.inner = err.message]

\* error(err): error.status() throws a TypeError on undefined
error(io, err) ==
  LET e == asCtrlError(err)
  IN  IF e.kind = "undefined"
        THEN [io EXCEPT !.thrown = "TypeError"]
        ELSE json(io, toJSON(e), IF e.status = 0 THEN 500 ELSE e.status)

\* data instanceof Uint8Array || data instanceof ArrayBuffer
IsBinaryResult(data) == data \in {"Buffer", "Uint8Array", "ArrayBuffer"}

\* writeResult(res, data, next)
writeResult(io, data) ==
  LET fresh == [io EXCEPT !.resp = NewResp]
  IN  IF IsBinaryResult(data)
        THEN andThenEnd(write(fresh, data, OctetStream, 0))
        ELSE json(fresh, data, 0)

-----------------------------------------------------------------------------
(* Steps of the promise chain of callAction.                                *)

\* thenWrite that goes on to the after-hook without writing.
thenWrite_skip(settled) == "after"

\* thenWrite with writeResult as the rejection handler too.
thenWrite_both(settled) == "write"

\* resolvePromise(actionResult).then(r => this.writeResult(res, r, next)):
\* the reaction that follows once the result has settled.
thenWrite(settled) == IF settled = "fulfilled" THEN "write" ELSE "catch1"

\* typeof actionResult !== 'undefined'
IsDefined(actionResult) == actionResult # Undefined

\* What user code throws or rejects with.
Thrown(where) == {NativeErr(where), CtrlErr("not_found", 404, <<>>)}

VARIABLES
  marks,        \* methods carrying the publicAction decorator
  entries,      \* the entries of context.validator
  thrownOut,    \* the step whose throw left callAction, "none" if none did
  calls,        \* number of calls user code made on the ResponseHandler
  lastCall,     \* the last of them and what it threw
  wired,        \* whether errorHandler() is the error middleware behind next
  eresp,        \* a second ResponseHandler on res: that of errorHandler,
                \* or another one of user code
  handlerThrew, \* what each run of errorHandler threw, "none" if nothing
  mwAction,     \* the argument the middleware was made with: action(mwAction)
  routeParam,   \* req.params['action'] of the request the middleware got
  params,       \* the parameters the action function declares
  args,         \* what injector.getParams(actionFn) returned
  metadata,     \* the Validator stored as metadata of each decorated method
  cycles,       \* for each of the concurrent dispatch cycles: its stage, its
                \* action, the entries of its context.validator, its request
  pc,           \* position of the current cycle's promise chain
  ctrl,         \* class of the controller instance of the cycle
  actionRef,    \* the Action handed to callAction
  strict,       \* throwIfNotFound
  actionFn,     \* the resolved function, NoFn if unresolved
  req,          \* the request's provider fields
  valResults,   \* ValidationResults of the before-hook
  beforeState,  \* "none", "threw", "pending", "fulfilled", "rejected"
  invoked,      \* invocations of the action function
  outcome,      \* "none", "threw", "returned", "pending", "resolved", "rejected"
  result,       \* what the action returned or resolved to
  wrote,        \* calls of writeResult
  afterRuns,    \* calls of afterCall
  chainErr,     \* rejection reason travelling down the chain
  nextCalls,    \* arguments of the calls of next, in order
  resp,         \* the ResponseHandler of writeResult
  res,          \* the ServerResponse
  log           \* console.error lines

\* the variables only some of the specifications move
route == <<mwAction, routeParam>>
inject == <<params, args>>
conc == <<metadata, cycles>>
aux == <<route, inject, conc>>

vars == <<aux, marks, entries, thrownOut, calls, lastCall, wired, eresp,
          handlerThrew, pc, ctrl, actionRef, strict, actionFn, req,
          valResults, beforeState, invoked, outcome, result, wrote,
          afterRuns, chainErr, nextCalls, resp, res, log>>

\* thrown: what the call made on the handler throws, "none" if nothing
io ==
  [resp |-> resp, res |-> res, log |-> log, thrown |-> "none", sunk |-> <<>>]

NoCall == [op |-> "none", thrown |-> "none"]

\* action() made without an argument
NoArg == [byName |-> FALSE, fn |-> NoFn]

\* the values of aux where nothing uses them
RouteIdle ==
  /\ mwAction = NoArg
  /\ routeParam = ""
InjectIdle ==
  /\ params = <<>>
  /\ args = <<>>
NumCycles == 2
Cycles == 1..NumCycles
IdleCycle ==
  [stage |-> "idle", fn |-> NoFn, validator |-> <<>>,
   req |-> [p \in Providers |-> "undef"]]
\* the metadata the validate decorators defined when the classes were made
DeclaredMetadata == [f \in UserMethods |-> DeclaredValidations(f)]
ConcIdle ==
  /\ metadata = DeclaredMetadata
  /\ cycles = [k \in Cycles |-> IdleCycle]
AuxIdle == RouteIdle /\ InjectIdle /\ ConcIdle

\* The state before a dispatch, with or without errorHandler() installed.
Start(w) ==
  /\ marks \in SUBSET UserMethods
  /\ entries = <<>>
  /\ thrownOut = "none"
  /\ calls = 0
  /\ lastCall = NoCall
  /\ wired = w
  /\ eresp = NoResp
  /\ handlerThrew = <<>>
  /\ AuxIdle
  /\ pc = "idle"
  /\ ctrl = "UserCtrl"
  /\ actionRef = ByName("nope")
  /\ strict = FALSE
  /\ actionFn = NoFn
  /\ req = [p \in Providers |-> "undef"]
  /\ valResults = <<>>
  /\ beforeState = "none"
  /\ invoked = 0
  /\ outcome = "none"
  /\ result = Undefined
  /\ wrote = 0
  /\ afterRuns = 0
  /\ chainErr = NullErr
  /\ nextCalls = <<>>
  /\ resp = NoResp
  /\ res = NewRes
  /\ log = <<>>

Init == Start(FALSE)

\* errorHandler()(err, req, res, next): a new ResponseHandler on res writes
\* the error; json() returns the promise of end(), which has no end method,
\* so the trailing .end() throws a TypeError.
errorHandler(rs, lg, err) ==
  LET e   == asCtrlError(err)
      new == [resp |-> NewResp, res |-> rs, log |-> lg, thrown |-> "none",
              sunk |-> <<>>]
      out == IF e.kind = "undefined"
               THEN [new EXCEPT !.thrown = "TypeError"]
               ELSE json(new, toJSON(e), IF e.status = 0 THEN 500 ELSE e.status)
  IN  IF out.thrown # "none" THEN out ELSE [out EXCEPT !.thrown = "TypeError"]

\* What a call of next(err) does to the response rs and the log lg: with
\* errorHandler installed and an error given, the framework runs it and
\* catches what it throws.
Sink(rs, lg, err) ==
  IF wired /\ err.kind # "null"
    THEN LET out == errorHandler(rs, lg, err)
         IN  /\ res' = out.res /\ log' = out.log
             /\ eresp' = IF out.resp.closed THEN out.resp ELSE eresp
             /\ handlerThrew' = Append(handlerThrew, out.thrown)
    ELSE /\ res' = rs /\ log' = lg
         /\ UNCHANGED <<eresp, handlerThrew>>

\* What a before-hook does after the validation of BaseController.beforeCall:
\* nothing more, throw, or return a promise.
BeforeHooks == {"base", "throws", "promise"}

\* this.injectoryType: DependencyInjector, or a type of the controller's
\* own whose constructor throws.
InjectorTypes == {"DependencyInjector", "ThrowingInjector"}

\* callAction(action, req, res, next, throwIfNotFound) up to the point where
\* it returns: resolution, RequestContext, injector, the before-hook.
callAction(c, a, s, r, h, inj) ==
  LET f == resolveActionFn(marks, c, a)
      v == validate(getValidator(c, f.name), r, <<>>)
  IN
  /\ pc = "idle"
  /\ ctrl' = c /\ actionRef' = a /\ strict' = s /\ actionFn' = f
  /\ invoked' = 0 /\ outcome' = "none" /\ result' = Undefined
  /\ wrote' = 0 /\ afterRuns' = 0 /\ chainErr' = NullErr
  /\ resp' = NoResp
  /\ IF f = NoFn
       THEN /\ nextCalls' = <<NotFoundArg(s, c, a)>>
            /\ req' = r /\ valResults' = <<>> /\ beforeState' = "none"
            /\ entries' = <<>> /\ thrownOut' = "none"
            /\ pc' = "done"
       ELSE IF inj = "ThrowingInjector"
       THEN /\ nextCalls' = <<>>
            /\ req' = r /\ valResults' = <<>> /\ beforeState' = "none"
            /\ entries' = <<>> /\ thrownOut' = "injector"
            /\ pc' = "done"
       ELSE /\ req' = v.req
            /\ valResults' = v.results
            /\ entries' = getValidator(c, f.name) /\ thrownOut' = "none"
            /\ IF ~isValid(v.results)
                 THEN /\ nextCalls' = <<CtrlError_validation(v.results)>>
                      /\ beforeState' = "threw" /\ pc' = "done"
                 ELSE CASE h = "throws" ->
                             /\ nextCalls' = <<NativeErr("beforeCall")>>
                             /\ beforeState' = "threw" /\ pc' = "done"
                        [] h = "promise" ->
                             /\ nextCalls' = <<>>
                             /\ beforeState' = "pending" /\ pc' = "before"
                        [] OTHER ->
                             /\ nextCalls' = <<>>
                             /\ beforeState' = "fulfilled" /\ pc' = "invoke"
  /\ Sink(NewRes, <<>>, IF nextCalls' = <<>> THEN NullErr ELSE nextCalls'[1])
  /\ UNCHANGED <<marks, calls, lastCall, wired>>

\* The promise a before-hook returned settles.
BeforeSettle ==
  /\ pc = "before"
  /\ \/ /\ beforeState' = "fulfilled" /\ pc' = "invoke"
        /\ UNCHANGED chainErr
     \/ \E e \in Thrown("beforeCall") :
          /\ beforeState' = "rejected" /\ pc' = "catch1"
          /\ chainErr' = e
  /\ UNCHANGED <<aux, marks, entries, thrownOut, calls, lastCall, wired,
                 eresp, handlerThrew, ctrl, actionRef, strict, actionFn, req,
                 valResults, invoked, outcome, result, wrote, afterRuns,
                 nextCalls, resp, res, log>>

\* actionFn.apply(this, injector.getParams(actionFn)) and the test of its
\* result: it throws, returns a value, or returns a promise.
InvokeAction ==
  /\ pc = "invoke"
  /\ invoked' = invoked + 1
  /\ \/ \E e \in Thrown("action") :
          /\ outcome' = "threw" /\ chainErr' = e /\ pc' = "catch1"
          /\ UNCHANGED result
     \/ \E k \in DataKinds \cup {Undefined} :
          /\ outcome' = "returned" /\ result' = k
          /\ pc' = IF IsDefined(k) THEN thenWrite("fulfilled") ELSE "after"
          /\ UNCHANGED chainErr
     \/ /\ outcome' = "pending" /\ pc' = "await"
        /\ UNCHANGED <<result, chainErr>>
  /\ UNCHANGED <<aux, marks, entries, thrownOut, calls, lastCall, wired,
                 eresp, handlerThrew, ctrl, actionRef, strict, actionFn, req,
                 valResults, beforeState, wrote, afterRuns, nextCalls,
                 resp, res, log>>

\* The promise the action returned settles.
ActionSettle ==
  /\ pc = "await"
  /\ \/ \E k \in DataKinds \cup {Undefined} :
          /\ outcome' = "resolved" /\ result' = k
          /\ pc' = thenWrite("fulfilled")
          /\ UNCHANGED chainErr
     \/ \E e \in Thrown("action") :
          /\ outcome' = "rejected" /\ chainErr' = e
          /\ pc' = thenWrite("rejected")
          /\ UNCHANGED result
  /\ UNCHANGED <<aux, marks, entries, thrownOut, calls, lastCall, wired,
                 eresp, handlerThrew, ctrl, actionRef, strict, actionFn, req,
                 valResults, beforeState, invoked, wrote, afterRuns,
                 nextCalls, resp, res, log>>

\* r => this.writeResult(res, r, next)
WriteResult ==
  /\ pc = "write"
  /\ LET out == writeResult(io, result)
     IN  /\ resp' = out.resp /\ res' = out.res /\ log' = out.log
         /\ nextCalls' = nextCalls \o out.sunk
         /\ IF out.thrown = "none"
              THEN pc' = "after" /\ UNCHANGED chainErr
              ELSE pc' = "catch1" /\ chainErr' = NativeErr(out.thrown)
  /\ wrote' = wrote + 1
  /\ UNCHANGED <<aux, marks, entries, thrownOut, calls, lastCall, wired,
                 eresp, handlerThrew, ctrl, actionRef,
                 strict, actionFn, req, valResults, beforeState, invoked,
                 outcome, result, afterRuns>>

\* the first .catch(err => next(err))
Catch1 ==
  /\ pc = "catch1"
  /\ nextCalls' = Append(nextCalls, chainErr)
  /\ Sink(res, log, chainErr)
  /\ pc' = "after"
  /\ UNCHANGED <<aux, marks, entries, thrownOut, calls, lastCall, wired, ctrl, actionRef, strict, actionFn, req,
                 valResults, beforeState, invoked, outcome, result, wrote,
                 afterRuns, chainErr, resp>>

\* .then(() => this.afterCall(req, res, actionFn, context)); an overriding
\* after-hook may throw.
AfterCall ==
  /\ pc = "after"
  /\ afterRuns' = afterRuns + 1
  /\ \/ pc' = "done" /\ UNCHANGED chainErr
     \/ \E e \in Thrown("afterCall") : chainErr' = e /\ pc' = "catch2"
  /\ UNCHANGED <<aux, marks, entries, thrownOut, calls, lastCall, wired,
                 eresp, handlerThrew, ctrl, actionRef, strict, actionFn, req,
                 valResults, beforeState, invoked, outcome, result, wrote,
                 nextCalls, resp, res, log>>

\* the second .catch(err => next(err))
Catch2 ==
  /\ pc = "catch2"
  /\ nextCalls' = Append(nextCalls, chainErr)
  /\ Sink(res, log, chainErr)
  /\ pc' = "done"
  /\ UNCHANGED <<aux, marks, entries, thrownOut, calls, lastCall, wired, ctrl, actionRef, strict, actionFn, req,
                 valResults, beforeState, invoked, outcome, result, wrote,
                 afterRuns, chainErr, resp>>

\* The callback of a res.write fires: () => resolve()
WriteCallback ==
  /\ resp.pending > 0
  /\ resp' = [resp EXCEPT !.pending = @ - 1]
  /\ UNCHANGED <<aux, marks, entries, thrownOut, calls, lastCall, wired,
                 eresp, handlerThrew, pc, ctrl, actionRef, strict, actionFn,
                 req, valResults, beforeState, invoked, outcome, result,
                 wrote, afterRuns, chainErr, nextCalls, res, log>>

\* Promise.all(this.writePromises).then(() => this.res.end())
EndStream ==
  /\ resp.endWaiting > 0
  /\ resp.pending = 0
  /\ resp' = [resp EXCEPT !.endWaiting = @ - 1]
  /\ res' = [res EXCEPT !.endCalls = @ + 1,
                        !.headersSent = TRUE,
                        !.finished = TRUE]
  /\ UNCHANGED <<aux, marks, entries, thrownOut, calls, lastCall, wired,
                 eresp, handlerThrew, pc, ctrl, actionRef, strict, actionFn,
                 req, valResults, beforeState, invoked, outcome, result,
                 wrote, afterRuns, chainErr, nextCalls, log>>

Dispatch ==
  \E c \in Controllers, a \in ActionRefs, s \in BOOLEAN,
     r \in [Providers -> RawValues], h \in BeforeHooks,
     inj \in InjectorTypes :
    callAction(c, a, s, r, h, inj) /\ UNCHANGED aux

Next ==
  \/ Dispatch
  \/ BeforeSettle
  \/ InvokeAction
  \/ ActionSettle
  \/ WriteResult
  \/ Catch1
  \/ AfterCall
  \/ Catch2
  \/ WriteCallback
  \/ EndStream

Spec == Init /\ [][Next]_vars

\* The same with every reaction, settlement and callback eventually run.
FairSpec == Spec /\ WF_vars(Next)

-----------------------------------------------------------------------------
(* DependencyInjector.getParams over the parameter lists of up to MaxParams *)
(* declarations.                                                            *)

\* The state of everything a dispatch moves, before it.
Quiet ==
  /\ marks = {}
  /\ entries = <<>>
  /\ thrownOut = "none"
  /\ calls = 0
  /\ lastCall = NoCall
  /\ wired = FALSE
  /\ eresp = NoResp
  /\ handlerThrew = <<>>
  /\ pc = "idle"
  /\ ctrl = "UserCtrl"
  /\ actionRef = ByName("nope")
  /\ strict = FALSE
  /\ actionFn = NoFn
  /\ req = [p \in Providers |-> "undef"]
  /\ valResults = <<>>
  /\ beforeState = "none"
  /\ invoked = 0
  /\ outcome = "none"
  /\ result = Undefined
  /\ wrote = 0
  /\ afterRuns = 0
  /\ chainErr = NullErr
  /\ nextCalls = <<>>
  /\ resp = NoResp
  /\ res = NewRes
  /\ log = <<>>

MaxParams == 3
\* inject_$req .. inject_$resp of DependencyInjector.prototype
InjectorNames ==
  {"$req", "$res", "$query", "$params", "$body", "$headers", "$next",
   "$context", "$resp"}
\* A declared parameter: its name and whether it has a default value,
\* written name = 1.
Decl(name, default) == [name |-> name, default |-> default]
Decls ==
  {Decl(n, FALSE) : n \in InjectorNames \cup {"a"}}
    \cup {Decl(n, TRUE) : n \in {"a", "$req"}}
ParamLists == UNION {[1..n -> Decls] : n \in 0..MaxParams}

\* ARGUMENT_NAMES, /([^\s,]+)/g, on the text of one declaration
argumentNames(d) ==
  IF d.default THEN <<d.name, "=", "1">> ELSE <<d.name>>

RECURSIVE resolveActionParameters(_)
\* the matches of ARGUMENT_NAMES in the text between '(' and ')'
resolveActionParameters(ps) ==
  IF ps = <<>> THEN <<>>
  ELSE argumentNames(Head(ps)) \o resolveActionParameters(Tail(ps))

\* this.constructor.prototype['inject_' + paramName]; "" for undefined
resolveInjector(paramName) ==
  IF paramName \in InjectorNames THEN "inject_" \o paramName ELSE ""

\* i.call(this): the value the injector method returns, named by what it is
callInjector(i) ==
  CASE i = "inject_$req"     -> "req"
    [] i = "inject_$res"     -> "res"
    [] i = "inject_$query"   -> "query"
    [] i = "inject_$params"  -> "params"
    [] i = "inject_$body"    -> "body"
    [] i = "inject_$headers" -> "headers"
    [] i = "inject_$next"    -> "next"
    [] i = "inject_$context" -> "context"
    [] i = "inject_$resp"    -> "resp"

\* getParams(action)
getParams(ps) ==
  LET names == resolveActionParameters(ps)
  IN  [k \in 1..Len(names) |->
         LET i == resolveInjector(names[k])
         IN  IF i # "" THEN callInjector(i) ELSE Undefined]

InitInject ==
  /\ Quiet
  /\ RouteIdle /\ ConcIdle
  /\ params \in ParamLists
  /\ args = <<>>

\* injector.getParams(actionFn) for an action declaring params
GetParams ==
  /\ pc = "idle"
  /\ args' = getParams(params)
  /\ pc' = "done"
  /\ UNCHANGED <<route, conc, params, marks, entries, thrownOut, calls, lastCall,
                 wired, eresp, handlerThrew, ctrl, actionRef, strict,
                 actionFn, req, valResults, beforeState, invoked, outcome,
                 result, wrote, afterRuns, chainErr, nextCalls, resp, res,
                 log>>

NextInject == GetParams

SpecInject == InitInject /\ [][NextInject]_vars

-----------------------------------------------------------------------------
(* NumCycles dispatch cycles of one controller, each with a RequestContext  *)
(* of its own, over the validation metadata they share.                     *)

RECURSIVE getValidatorIn(_, _, _)
\* getValidator(target, property) reading the metadata meta
getValidatorIn(meta, c, name) ==
  IF c = NoClass THEN <<>>
  ELSE IF HasValidations(Fn(c, name)) THEN meta[Fn(c, name)]
  ELSE getValidatorIn(meta, Parent(c), name)

\* this.addValidation(provider) for a Validator: provider.forEach(v =>
\* this.push(v))
addValidation(this, provider) == this \o provider

\* beforeCall with the declared Validator itself as context.validator, so
\* that the entries are pushed onto the metadata.
metadataAfter_pushed(meta, c, name) ==
  [f \in DOMAIN meta |->
     IF f \in {Fn(k, name) : k \in {"UserCtrl", "AppCtrl"}}
       THEN addValidation(meta[f], meta[f]) ELSE meta[f]]

\* The metadata after beforeCall: it pushes onto the Validator of the new
\* RequestContext and defines no metadata.
metadataAfter(meta, c, name) == meta

InitConc ==
  /\ Quiet
  /\ RouteIdle /\ InjectIdle /\ ConcIdle

\* callAction of cycle k up to the end of beforeCall, for a public action
ConcDispatch(k) ==
  \E a \in ActionRefs, r \in [Providers -> RawValues] :
    LET f     == resolveActionFn(UserMethods, "UserCtrl", a)
        added == addValidation(<<>>, getValidatorIn(metadata, "UserCtrl", f.name))
        v     == validate(added, r, <<>>)
    IN  /\ cycles[k].stage = "idle"
        /\ f # NoFn
        /\ cycles' = [cycles EXCEPT ![k] =
                        [stage |-> "chain", fn |-> f, validator |-> added,
                         req |-> v.req]]
        /\ metadata' = metadataAfter(metadata, "UserCtrl", f.name)

\* the chain of cycle k has run to its end
ConcFinish(k) ==
  /\ cycles[k].stage = "chain"
  /\ cycles' = [cycles EXCEPT ![k] = IdleCycle]
  /\ UNCHANGED metadata

ConcStep ==
  /\ \E k \in Cycles : ConcDispatch(k) \/ ConcFinish(k)
  /\ UNCHANGED <<route, inject, marks, entries, thrownOut, calls, lastCall,
                 wired, eresp, handlerThrew, pc, ctrl, actionRef, strict,
                 actionFn, req, valResults, beforeState, invoked, outcome,
                 result, wrote, afterRuns, chainErr, nextCalls, resp, res,
                 log>>

NextConc == ConcStep

SpecConc == InitConc /\ [][NextConc]_vars

-----------------------------------------------------------------------------
(* Dispatches made by the middleware of action(action?).                    *)

\* What action() can be given: nothing, a name (the empty one too), a function.
MiddlewareArgs == ActionRefs \cup {NoArg, ByName("")}

Truthy(action) == action # NoArg /\ action # ByName("")

\* !!action, with the sense an explicitly given argument would have.
throwIfNotFound_given(action) == action # NoArg

\* !!action
throwIfNotFound(action) == Truthy(action)

\* action || req.params['action']
actionOrParam(action, param) ==
  IF Truthy(action) THEN action ELSE ByName(param)

\* the requests the middleware gets: one that validates, one that does not
RouteRequests == {[p \in Providers |-> v] : v \in {"str1", "bad"}}

\* the middleware of action(arg) gets a request whose route names param
Middleware ==
  \E c \in Controllers, arg \in MiddlewareArgs, param \in ActionNames,
     r \in RouteRequests :
    /\ callAction(c, actionOrParam(arg, param), throwIfNotFound(arg), r,
                  "base", "DependencyInjector")
    /\ mwAction' = arg
    /\ routeParam' = param
    /\ UNCHANGED <<inject, conc>>

NextRoute ==
  \/ Middleware
  \/ InvokeAction
  \/ ActionSettle
  \/ WriteResult
  \/ Catch1
  \/ AfterCall
  \/ Catch2
  \/ WriteCallback
  \/ EndStream

SpecRoute == Init /\ [][NextRoute]_vars

-----------------------------------------------------------------------------
(* A dispatch with errorHandler() installed as the error middleware.        *)

InitHandled == Start(TRUE)

\* The callback of a res.write of the error handler fires.
ErrWriteCallback ==
  /\ eresp.pending > 0
  /\ eresp' = [eresp EXCEPT !.pending = @ - 1]
  /\ UNCHANGED <<aux, marks, entries, thrownOut, calls, lastCall, wired,
                 handlerThrew, pc, ctrl, actionRef, strict, actionFn, req,
                 valResults, beforeState, invoked, outcome, result, wrote,
                 afterRuns, chainErr, nextCalls, resp, res, log>>

\* The continuation of the end() of the error handler: res.end()
ErrEndStream ==
  /\ eresp.endWaiting > 0
  /\ eresp.pending = 0
  /\ eresp' = [eresp EXCEPT !.endWaiting = @ - 1]
  /\ res' = [res EXCEPT !.endCalls = @ + 1,
                        !.headersSent = TRUE,
                        !.finished = TRUE]
  /\ UNCHANGED <<aux, marks, entries, thrownOut, calls, lastCall, wired,
                 handlerThrew, pc, ctrl, actionRef, strict, actionFn, req,
                 valResults, beforeState, invoked, outcome, result, wrote,
                 afterRuns, chainErr, nextCalls, resp, log>>

NextHandled ==
  \/ Next
  \/ ErrWriteCallback
  \/ ErrEndStream

SpecHandled == InitHandled /\ [][NextHandled]_vars

-----------------------------------------------------------------------------
(* One ResponseHandler and the calls user code makes on it, up to MaxCalls. *)

MaxCalls == 3
\* data of the write and json calls
WriteData == {"Buffer", "object", "circular", Undefined}
\* err of the error calls
ErrValues ==
  {CtrlErr("not_found", 404, <<>>), CtrlErr("custom", 0, <<>>),
   NativeErr("boom"), UndefinedErr}

InitWriter ==
  /\ marks = {}
  /\ entries = <<>>
  /\ thrownOut = "none"
  /\ calls = 0
  /\ lastCall = NoCall
  /\ wired = FALSE
  /\ eresp = NoResp
  /\ handlerThrew = <<>>
  /\ AuxIdle
  /\ pc = "idle"
  /\ ctrl = "UserCtrl"
  /\ actionRef = ByName("nope")
  /\ strict = FALSE
  /\ actionFn = NoFn
  /\ req = [p \in Providers |-> "undef"]
  /\ valResults = <<>>
  /\ beforeState = "none"
  /\ invoked = 0
  /\ outcome = "none"
  /\ result = Undefined
  /\ wrote = 0
  /\ afterRuns = 0
  /\ chainErr = NullErr
  /\ nextCalls = <<>>
  /\ resp = NewResp
  /\ res = NewRes
  /\ log = <<>>

\* the effect of one call on the handler
Called(op, out) ==
  /\ calls < MaxCalls
  /\ calls' = calls + 1
  /\ lastCall' = [op |-> op, thrown |-> out.thrown]
  /\ resp' = out.resp /\ res' = out.res /\ log' = out.log
  /\ nextCalls' = nextCalls \o out.sunk
  /\ UNCHANGED <<aux, marks, entries, thrownOut, wired, eresp, handlerThrew, pc,
                 ctrl, actionRef, strict, actionFn, req, valResults,
                 beforeState, invoked, outcome, result, wrote, afterRuns,
                 chainErr>>

\* resp.write({data, headers, status})
CallWrite ==
  \E data \in WriteData, ct \in {"", OctetStream} :
    Called("write", write(io, data, ct, 0))

\* resp.json(data, status)
CallJson ==
  \E data \in WriteData, status \in {0, 201} :
    Called("json", json(io, data, status))

\* resp.error(err)
CallError == \E err \in ErrValues : Called("error", error(io, err))

\* resp.end()
CallEnd == Called("end", end(io))

NextWriter ==
  \/ CallWrite
  \/ CallJson
  \/ CallError
  \/ CallEnd
  \/ WriteCallback
  \/ EndStream

SpecWriter == InitWriter /\ [][NextWriter]_vars

-----------------------------------------------------------------------------
(* Two ResponseHandlers on one response: response(res) called twice, as by  *)
(* inject_$resp and writeResult.                                            *)

InitShared ==
  /\ marks = {}
  /\ entries = <<>>
  /\ thrownOut = "none"
  /\ calls = 0
  /\ lastCall = NoCall
  /\ wired = FALSE
  /\ eresp = NewResp
  /\ handlerThrew = <<>>
  /\ AuxIdle
  /\ pc = "idle"
  /\ ctrl = "UserCtrl"
  /\ actionRef = ByName("nope")
  /\ strict = FALSE
  /\ actionFn = NoFn
  /\ req = [p \in Providers |-> "undef"]
  /\ valResults = <<>>
  /\ beforeState = "none"
  /\ invoked = 0
  /\ outcome = "none"
  /\ result = Undefined
  /\ wrote = 0
  /\ afterRuns = 0
  /\ chainErr = NullErr
  /\ nextCalls = <<>>
  /\ resp = NewResp
  /\ res = NewRes
  /\ log = <<>>

\* the second handler with the response and the log
ioOther == [io EXCEPT !.resp = eresp]

\* the effect of one call on the second handler
CalledOther(op, out) ==
  /\ calls < MaxCalls
  /\ calls' = calls + 1
  /\ lastCall' = [op |-> op, thrown |-> out.thrown]
  /\ eresp' = out.resp /\ res' = out.res /\ log' = out.log
  /\ nextCalls' = nextCalls \o out.sunk
  /\ UNCHANGED <<aux, marks, entries, thrownOut, wired, resp, handlerThrew, pc,
                 ctrl, actionRef, strict, actionFn, req, valResults,
                 beforeState, invoked, outcome, result, wrote, afterRuns,
                 chainErr>>

OtherWrite ==
  \E data \in WriteData, ct \in {"", OctetStream} :
    CalledOther("write", write(ioOther, data, ct, 0))

OtherJson ==
  \E data \in WriteData : CalledOther("json", json(ioOther, data, 0))

OtherEnd == CalledOther("end", end(ioOther))

NextShared ==
  \/ CallWrite
  \/ CallJson
  \/ CallEnd
  \/ OtherWrite
  \/ OtherJson
  \/ OtherEnd
  \/ WriteCallback
  \/ EndStream
  \/ ErrWriteCallback
  \/ ErrEndStream

SpecShared == InitShared /\ [][NextShared]_vars

-----------------------------------------------------------------------------
(* beforeCall alone, over every validator of up to MaxEntries entries.      *)

MaxEntries == 2
Accessors == {"none", "query", "default"}
EntryLists ==
  UNION {[1..n -> {Entry(p, a) : p \in Providers, a \in Accessors}] :
           n \in 0..MaxEntries}

InitValidate ==
  /\ marks = {}
  /\ entries \in EntryLists
  /\ thrownOut = "none"
  /\ calls = 0
  /\ lastCall = NoCall
  /\ wired = FALSE
  /\ eresp = NoResp
  /\ handlerThrew = <<>>
  /\ AuxIdle
  /\ pc = "idle"
  /\ ctrl = "UserCtrl"
  /\ actionRef = ByName("nope")
  /\ strict = FALSE
  /\ actionFn = NoFn
  /\ req \in [Providers -> FieldValues]
  /\ valResults = <<>>
  /\ beforeState = "none"
  /\ invoked = 0
  /\ outcome = "none"
  /\ result = Undefined
  /\ wrote = 0
  /\ afterRuns = 0
  /\ chainErr = NullErr
  /\ nextCalls = <<>>
  /\ resp = NoResp
  /\ res = NewRes
  /\ log = <<>>

\* BaseController.beforeCall on a context whose validator holds entries:
\* validate(req), and throw CtrlError.validation unless valid.
beforeCall ==
  LET v == validate(entries, req, <<>>)
  IN
  /\ pc = "idle"
  /\ req' = v.req
  /\ valResults' = v.results
  /\ IF ~isValid(v.results)
       THEN beforeState' = "threw" /\ chainErr' = CtrlError_validation(v.results)
       ELSE beforeState' = "fulfilled" /\ chainErr' = NullErr
  /\ pc' = "done"
  /\ UNCHANGED <<aux, marks, entries, thrownOut, calls, lastCall, wired,
                 eresp, handlerThrew, ctrl, actionRef, strict, actionFn,
                 invoked, outcome, result, wrote, afterRuns, nextCalls,
                 resp, res, log>>

NextValidate == beforeCall

SpecValidate == InitValidate /\ [][NextValidate]_vars

TypeOK ==
  /\ pc \in {"idle", "before", "invoke", "await", "write", "catch1",
             "after", "catch2", "done"}

-----------------------------------------------------------------------------
(* Properties of a dispatch cycle.                                          *)

Dispatched == pc # "idle"
Untouched == res = NewRes /\ resp = NoResp
Invalid == \E i \in 1..Len(valResults) : valResults[i].error

\* C1: the action function is invoked only if the method invoked carries the
\* public marker itself; a method without a marker is never invoked.
C1_OnlyMarkedInvoked ==
  invoked > 0 => actionFn \in marks

\* C2: an unresolved action calls the failure sink exactly once -- with
\* invalid_action / 500 / {controller, action} when throwIfNotFound, with no
\* error otherwise -- and nothing else of the pipeline happens.
C2_Unresolved ==
  (Dispatched /\ actionFn = NoFn) =>
    /\ Len(nextCalls) = 1
    /\ IF strict
         THEN nextCalls[1] = [kind |-> "CtrlError", message |-> "",
                              code |-> "invalid_action", status |-> 500,
                              blob |-> <<ctrl, actionRef.fn.name>>,
                              inner |-> ""]
         ELSE nextCalls[1].kind = "null"
    /\ beforeState = "none" /\ valResults = <<>>
    /\ \A p \in Providers : req[p] \in RawValues
    /\ invoked = 0 /\ wrote = 0 /\ afterRuns = 0
    /\ Untouched /\ log = <<>>

C2_Witness ==
  /\ pc = "done" /\ actionFn = NoFn /\ strict
  /\ actionRef = ByName("nope")

\* C3: an action given by name resolves only to a method the controller's own
\* prototype owns, never to an inherited one.
C3_OwnMethodOnly ==
  (invoked > 0 /\ actionRef.byName) => actionFn.owner = ctrl

\* C4: the action runs only after the before-hook completed with a valid
\* validation; an invalid validation means no invocation, no write, and a
\* validation_error / 422 at the failure sink.
C4_ValidationGate ==
  /\ invoked > 0 => (beforeState = "fulfilled" /\ ~Invalid)
  /\ Invalid =>
       /\ invoked = 0 /\ wrote = 0 /\ Untouched
       /\ Len(nextCalls) = 1
       /\ nextCalls[1].kind = "CtrlError"
       /\ nextCalls[1].code = "validation_error"
       /\ nextCalls[1].status = 422

C4_Witness ==
  /\ pc = "done" /\ Invalid /\ actionFn = Fn("UserCtrl", "show")
  /\ Len(nextCalls) = 1

\* C5: within one dispatch the failure sink is called at most once.
C5_SinkAtMostOnce ==
  Len(nextCalls) <= 1

\* C6: when the action invocation throws or rejects, the after-hook does not
\* run.
C6_NoAfterOnFailure ==
  outcome \in {"threw", "rejected"} => afterRuns = 0

\* C7: when the action's promise rejects, the rejection goes to the failure
\* sink and the dispatcher writes nothing to the response.
C7_RejectionNoWrite ==
  outcome = "rejected" =>
    /\ wrote = 0 /\ Untouched
    /\ pc = "catch1" => (nextCalls = <<>> /\ chainErr \in Thrown("action"))
    /\ pc # "catch1" => (Len(nextCalls) >= 1 /\ nextCalls[1] \in Thrown("action"))

C7_Witness ==
  /\ outcome = "rejected" /\ pc = "done"
  /\ nextCalls = <<NativeErr("action")>>

\* C8: the dispatcher writes only when the action's result (returned or
\* resolved) is defined; an undefined result causes no write and no end.
C8_NoWriteForUndefined ==
  (outcome \in {"returned", "resolved"} /\ result = Undefined) =>
    (wrote = 0 /\ Untouched)

\* C9: a defined result that is a raw byte buffer is written as raw bytes
\* with application/octet-stream and 200, every other defined result as JSON
\* with application/json and 200, and the writer is closed.
C9_WrittenByKind ==
  (wrote > 0 /\ result # Undefined) =>
    /\ res.statusCode = 200 /\ res.statusSet
    /\ resp.closed
    /\ IF result \in {"Buffer", "Uint8Array", "ArrayBuffer"}
         THEN /\ res.contentType = OctetStream
              /\ res.body = <<[enc |-> "raw", of |-> result]>>
         ELSE /\ res.contentType = Json
              /\ res.body = <<[enc |-> "json", of |-> result]>>

\* C10: a failure while serializing or writing the result reaches the failure
\* sink and leaves no response with status and headers set but no body.
C10_WriteFailureReported ==
  (pc = "done" /\ wrote > 0 /\ result # Undefined /\ log # <<>>) =>
    /\ Len(nextCalls) >= 1
    /\ ~(res.statusSet /\ res.body = <<>>)

\* C11: a synchronous throw in a step of callAction that precedes the promise
\* chain -- resolution, the construction of the request context and of the
\* injector, a throwing before-hook -- reaches the failure sink and does not
\* leave callAction.
C11_SyncThrowToSink ==
  /\ thrownOut = "none"
  /\ (beforeState = "threw" => Len(nextCalls) >= 1)

\* C17: when the promise of the action rejects with a plain Error, the failure
\* sink receives a CtrlError with code server_error, status 500 and an inner
\* error carrying the message of the original.
C17_RejectionWrapped ==
  (outcome = "rejected" /\ pc = "after" /\ chainErr = NativeErr("action")) =>
    nextCalls[Len(nextCalls)] = [CtrlError_server EXCEPT !.inner = "action"]

\* C18: every validation entry that passes leaves request[providerName]
\* replaced by the normalized value of the validator ({a:'1'} becomes {a:1}),
\* and the replacement is in place when the action is invoked.
C18_NormalizedInPlace ==
  \A i \in 1..Len(valResults) :
    ~valResults[i].error =>
      /\ valResults[i].value = "num1"
      /\ req[valResults[i].provider] = valResults[i].value

C18_Witness ==
  /\ invoked > 0
  /\ Len(valResults) = 2
  /\ \A i \in 1..2 : valResults[i].given = "str1"
  /\ req["body"] = "num1" /\ req["query"] = "num1"

Failing == {i \in 1..Len(valResults) : valResults[i].error}
\* the k-th failing result
KthFailing(k) ==
  CHOOSE i \in Failing : Cardinality({j \in Failing : j <= i}) = k

\* C19: the outcome of a validation is valid exactly when no result carries an
\* error (so for zero entries too), and the validation_error lists one entry
\* per failing result, in validation order, naming its provider.
C19_ValidIffNoError ==
  pc = "done" =>
    /\ (beforeState = "fulfilled") <=> (Failing = {})
    /\ (beforeState = "threw") <=> (Failing # {})
    /\ Failing = {} => chainErr = NullErr
    /\ Failing # {} =>
         /\ chainErr.kind = "CtrlError"
         /\ chainErr.code = "validation_error"
         /\ Len(chainErr.blob) = Cardinality(Failing)
         /\ \A k \in 1..Len(chainErr.blob) :
              chainErr.blob[k] = valResults[KthFailing(k)].provider

C19_Witness ==
  /\ pc = "done"
  /\ Len(valResults) = 2
  /\ Failing = {2}
  /\ chainErr.blob = <<valResults[2].provider>>

\* C20: a validation declared without an explicit data accessor -- through
\* addValidation or through the validate decorator for body or params -- hands
\* request[providerName] to the validator, and {} only when that is nullish.
C20_DefaultAccessorReadsField ==
  [][(pc = "idle" /\ pc' = "done") =>
       \A i \in 1..Len(entries) :
         (/\ entries[i].accessor \in {"none", "default"}
          /\ \A j \in 1..(i - 1) :
               entries[j].providerName # entries[i].providerName)
         => valResults'[i].given =
              (IF req[entries[i].providerName] = "undef"
                 THEN EmptyObject ELSE req[entries[i].providerName])]_vars

\* C12: once end() was called on a ResponseHandler, a later write, json or
\* error call leaves status, headers and body of the response unchanged, does
\* not throw, and is reported through handleWriteError.
C12_ClosedRejectsWrites ==
  [][(resp.closed /\ calls' = calls + 1 /\ lastCall'.op # "end") =>
       /\ res'.statusSet = res.statusSet
       /\ res'.statusCode = res.statusCode
       /\ res'.contentType = res.contentType
       /\ res'.body = res.body
       /\ lastCall'.thrown = "none"
       /\ Len(log') = Len(log) + 1]_vars

\* C13: res.end() is called only when every write started before end() has
\* settled.
C13_EndAfterWrites ==
  [][res'.endCalls > res.endCalls => resp.pending = 0]_vars

C13_Witness ==
  /\ lastCall.op = "end"
  /\ resp.closed /\ resp.pending > 0 /\ resp.endWaiting > 0
  /\ res.endCalls = 0

\* C14: end() called twice on one ResponseHandler calls res.end() a single
\* time and does not throw.
C14_EndOnce ==
  /\ res.endCalls <= 1
  /\ lastCall.op = "end" => lastCall.thrown = "none"

\* the errors handed to the failure sink
Failures == {k \in 1..Len(nextCalls) : nextCalls[k].kind # "null"}
\* the chunks of the body that are the JSON of one of them
ErrorBodies ==
  {i \in 1..Len(res.body) :
     \E k \in Failures : res.body[i].of = toJSON(asCtrlError(nextCalls[k]))}
ResultBodies == (1..Len(res.body)) \ ErrorBodies

\* C15: with errorHandler behind the failure sink a request gets at most one
\* body -- no error body once a result body was written -- and a dispatch
\* that fails without a result body gets exactly one JSON error body.
C15_OneBody ==
  wired =>
    /\ Len(res.body) <= 1
    /\ (Failures # {} /\ ResultBodies = {}) =>
         /\ Cardinality(ErrorBodies) = 1
         /\ res.contentType = Json

\* C16: errorHandler handles every err: a CtrlError is written as it is, any
\* other value as the inner error of a server_error; the body is written once
\* as JSON with the status of the error (500 when unset), the handler is
\* closed once, and the call does not throw.
C16_ErrorHandled ==
  (Len(handlerThrew) = 1 /\ wrote = 0) =>
    LET e == asCtrlError(nextCalls[CHOOSE k \in Failures : TRUE])
    IN  /\ handlerThrew[1] = "none"
        /\ res.body = <<[enc |-> "json", of |-> toJSON(e)]>>
        /\ res.contentType = Json
        /\ res.statusCode = IF e.status = 0 THEN 500 ELSE e.status
        /\ eresp.closed
        /\ eresp.endWaiting + res.endCalls = 1

\* C28: a failing validation entry leaves request[providerName] unchanged, a
\* passing one is written back even when another entry of the run fails, and
\* validate changes no field but the provider keys of passing entries.
C28_FailingEntryFrame ==
  [][(pc = "idle" /\ pc' = "done") =>
       \A p \in Providers :
         IF \E i \in 1..Len(valResults') :
              valResults'[i].provider = p /\ ~valResults'[i].error
           THEN req'[p] = "num1"
           ELSE req'[p] = req[p]]_vars

C28_Witness ==
  /\ pc = "done"
  /\ Len(valResults) = 2
  /\ valResults[1].error /\ ~valResults[2].error
  /\ valResults[1].provider # valResults[2].provider
  /\ req[valResults[1].provider] = "bad"
  /\ req[valResults[2].provider] = "num1"

\* C22: the middleware of action(a) with an explicit action always dispatches
\* a in strict mode (unresolved: invalid_action at next); the middleware of
\* action() dispatches the action the route names in non-strict mode
\* (unresolved: next without error).
C22_ExplicitStrict ==
  Dispatched =>
    IF mwAction # NoArg
      THEN /\ strict /\ actionRef = mwAction
           /\ actionFn = NoFn => nextCalls[1].code = "invalid_action"
      ELSE /\ ~strict /\ actionRef = ByName(routeParam)
           /\ actionFn = NoFn => nextCalls[1].kind = "null"

\* C22, amended: as above for an action that is truthy; an empty name counts
\* as no argument, and the route's action is dispatched in non-strict mode.
C22_TruthyStrict ==
  Dispatched =>
    IF Truthy(mwAction)
      THEN /\ strict /\ actionRef = mwAction
           /\ actionFn = NoFn => nextCalls[1].code = "invalid_action"
      ELSE /\ ~strict /\ actionRef = ByName(routeParam)
           /\ actionFn = NoFn => nextCalls[1].kind = "null"

C22_Witness ==
  /\ Dispatched
  /\ mwAction = ByName("")
  /\ routeParam = "show" /\ actionFn = Fn("UserCtrl", "show")
  /\ invoked > 0

\* the value the injector named n provides
InjectedValue(n) ==
  CASE n = "$req" -> "req" [] n = "$res" -> "res" [] n = "$query" -> "query"
    [] n = "$params" -> "params" [] n = "$body" -> "body"
    [] n = "$headers" -> "headers" [] n = "$next" -> "next"
    [] n = "$context" -> "context" [] n = "$resp" -> "resp"

\* C21: getParams returns exactly one value per declared parameter, in
\* declaration order: the value of the injector the parameter names, and
\* undefined for any other parameter.
C21_OneValuePerParameter ==
  pc = "done" =>
    /\ Len(args) = Len(params)
    /\ \A k \in 1..Len(params) :
         args[k] = IF params[k].name \in InjectorNames
                     THEN InjectedValue(params[k].name) ELSE Undefined

NoFailure ==
  beforeState = "fulfilled" /\ outcome \notin {"threw", "rejected"}

\* C24: in a dispatch whose before-hook and action complete without failure
\* the after-hook runs exactly once, after the action has returned and, when a
\* result is written, after its write was issued and the writer closed.
C24_AfterHookOnce ==
  [][LET ran == afterRuns' # afterRuns /\ NoFailure
         written == dataChunk(result).enc \in {"raw", "json"}
     IN  /\ ran => (afterRuns = 0 /\ invoked = 1)
         /\ ran => outcome \in {"returned", "resolved"}
         /\ (ran /\ IsDefined(result)) => (wrote = 1 /\ resp.closed)
         /\ (ran /\ IsDefined(result) /\ written) => Len(res.body) = 1
         /\ (pc' = "done" /\ NoFailure') => afterRuns' = 1]_vars

C24_Witness ==
  /\ pc = "done" /\ NoFailure
  /\ afterRuns = 1 /\ wrote = 1
  /\ Len(res.body) = 1 /\ resp.closed
  /\ nextCalls = <<>>

\* C27: whenever the dispatcher writes a result the Content-Type agrees with
\* the encoding of the body: raw bytes exactly with application/octet-stream,
\* JSON text exactly with application/json.
C27_TypeMatchesEncoding ==
  wrote > 0 =>
    \A i \in 1..Len(res.body) :
      /\ (res.body[i].enc = "raw") <=> (res.contentType = OctetStream)
      /\ (res.body[i].enc = "json") <=> (res.contentType = Json)

\* C29: if the promise of the action settles and every write callback fires,
\* a dispatch of a resolved action that ends in a defined result or in a
\* failure eventually ends the response or calls the failure sink.
C29_EndsOrSinks ==
  (/\ Dispatched /\ actionFn # NoFn
   /\ \/ thrownOut # "none"
      \/ beforeState \in {"threw", "rejected"}
      \/ outcome \in {"threw", "rejected"}
      \/ outcome \in {"returned", "resolved"} /\ IsDefined(result))
    ~> (res.endCalls > 0 \/ nextCalls # <<>>)

C26_NoBytesAfterEndRequested ==
  [][(resp.closed \/ eresp.closed) => res'.body = res.body]_vars

RECURSIVE DeclaredUnder(_, _)
\* the entries declared for the action named name, as seen from class c
DeclaredUnder(c, name) ==
  IF c = NoClass THEN <<>>
  ELSE IF DeclaredValidations(Fn(c, name)) # <<>>
    THEN DeclaredValidations(Fn(c, name))
  ELSE DeclaredUnder(Parent(c), name)

====
